---- MODULE Spec2Model ----
(***************************************************************************)
(* A model of the BRC20S protocol ledger engine:                           *)
(*   - Num, the bounded decimal of src/brc20/num.rs, a wrapper around the  *)
(*     bigdecimal crate's BigDecimal (a BigInt and an i64 scale);          *)
(*   - the decoding of a transfer payload (operation/transfer.rs);         *)
(*   - the ledger state machine and its receipts (server/brc20/receipt.rs).*)
(* Text is a sequence of one-character strings; a BigUint is a sequence of *)
(* decimal digits, least significant first, without a leading zero digit.  *)
(***************************************************************************)
EXTENDS Integers, Sequences, FiniteSets, TLC

VARIABLES
  input,    \* SpecParse: the text given to Num::from_str
  parsed,   \* SpecParse: the Result of Num::from_str(input), or NoneYet
  shown,    \* SpecParse: to_string / Serialize of the parsed Num, or NoneYet
  a,        \* SpecNum: the Num an operation is applied to
  b,        \* SpecNum: the other operand
  ex,       \* SpecNum: the u64 exponent of the last checked_powu
  opn,      \* SpecNum: the name of the last operation
  res,      \* SpecNum: the Result of the last operation
  depth,    \* SpecNum: how many results were fed back as operands
  payload,  \* SpecDecode: the members of the inscription's JSON object
  decoded,  \* SpecDecode: the Result of deserialize_brc30(payload), or NoneYet
  tickers,  \* SpecLedger: the Ticker Registry, symbol -> Ticker Record
  balances, \* SpecLedger: the Balance Ledger, <<symbol, address>> -> entry
  locks,    \* SpecLedger: the Transfer Locks, inscription id -> lock
  inscriptions, \* SpecLedger: how many inscriptions were created so far
  call,     \* SpecLedger: the operation and context last given to apply
  receipt,  \* SpecLedger: the Receipt apply returned for it, or NoneYet
  stored,   \* SpecEvents: the receipts the index has for the txid, if any
  events    \* SpecEvents: the ApiResult of brc20_tx_events, or NoneYet

numVars == <<a, b, ex, opn, res, depth>>
parseVars == <<input, parsed, shown>>
decodeVars == <<payload, decoded>>
ledgerVars == <<tickers, balances, locks, inscriptions, call, receipt>>
eventVars == <<stored, events>>

NoneYet == [ok |-> FALSE, err |-> [kind |-> "none"]]

(***************************************************************************)
(* BigUint arithmetic (num-bigint, reached through BigDecimal).  The digit *)
(* loops are written with carry look-ahead, so that no operator recurses   *)
(* once per digit.                                                         *)
(***************************************************************************)
\* the digits without the zero digits above the most significant one
UNorm(d) ==
  LET nz == {i \in 1..Len(d) : d[i] # 0}
  IN IF nz = {} THEN <<>>
     ELSE SubSeq(d, 1, CHOOSE i \in nz : \A j \in nz : j <= i)

\* digit i of x, zero above its length
Dig(x, i) == IF i <= Len(x) THEN x[i] ELSE 0

\* digits lo..hi of x + y + c and the carry out of them, halving the range
RECURSIVE UAddRange(_, _, _, _, _)
UAddRange(x, y, lo, hi, c) ==
  IF lo > hi THEN [d |-> <<>>, c |-> c]
  ELSE IF lo = hi
  THEN LET s == Dig(x, lo) + Dig(y, lo) + c
       IN [d |-> <<s % 10>>, c |-> s \div 10]
  ELSE LET mid == (lo + hi) \div 2
           l == UAddRange(x, y, lo, mid, c)
           r == UAddRange(x, y, mid + 1, hi, l.c)
       IN [d |-> l.d \o r.d, c |-> r.c]

UAdd(x, y) ==
  IF x = <<>> THEN y
  ELSE IF y = <<>> THEN x
  ELSE LET n == IF Len(x) >= Len(y) THEN Len(x) ELSE Len(y)
           r == UAddRange(x, y, 1, n, 0)
       IN UNorm(r.d \o <<r.c>>)

\* digits lo..hi of x - y - c and the borrow out of them
RECURSIVE USubRange(_, _, _, _, _)
USubRange(x, y, lo, hi, c) ==
  IF lo > hi THEN [d |-> <<>>, c |-> c]
  ELSE IF lo = hi
  THEN LET s == Dig(x, lo) - Dig(y, lo) - c
       IN [d |-> <<(s + 10) % 10>>, c |-> IF s < 0 THEN 1 ELSE 0]
  ELSE LET mid == (lo + hi) \div 2
           l == USubRange(x, y, lo, mid, c)
           r == USubRange(x, y, mid + 1, hi, l.c)
       IN [d |-> l.d \o r.d, c |-> r.c]

\* x - y for x >= y
USub(x, y) ==
  IF y = <<>> THEN x ELSE UNorm(USubRange(x, y, 1, Len(x), 0).d)

\* -1, 0 or 1 as x <, =, > y
UCmp(x, y) ==
  IF Len(x) > Len(y) THEN 1
  ELSE IF Len(x) < Len(y) THEN -1
  ELSE LET df == {i \in 1..Len(x) : x[i] # y[i]}
       IN IF df = {} THEN 0
          ELSE LET top == CHOOSE i \in df : \A j \in df : j <= i
               IN IF x[top] > y[top] THEN 1 ELSE -1

\* x * 10^k (bigdecimal's ten_to_the multiplication)
UShift(x, k) == IF x = <<>> THEN <<>> ELSE [i \in 1..k |-> 0] \o x

\* x / 10^k, truncating
UTrunc(x, k) == IF k >= Len(x) THEN <<>> ELSE SubSeq(x, k + 1, Len(x))

\* x * d for one digit d
UTimes(x, d) ==
  LET x2 == UAdd(x, x)
      x4 == UAdd(x2, x2)
      x8 == UAdd(x4, x4)
  IN UAdd(UAdd(IF d % 2 = 1 THEN x ELSE <<>>,
               IF (d \div 2) % 2 = 1 THEN x2 ELSE <<>>),
          UAdd(IF (d \div 4) % 2 = 1 THEN x4 ELSE <<>>,
               IF d >= 8 THEN x8 ELSE <<>>))

\* the sum of the partial products of x by the digits lo..hi of y
RECURSIVE UMulRange(_, _, _, _)
UMulRange(x, y, lo, hi) ==
  IF lo > hi THEN <<>>
  ELSE IF lo = hi THEN UShift(UTimes(x, y[lo]), lo - 1)
  ELSE LET mid == (lo + hi) \div 2
       IN UAdd(UMulRange(x, y, lo, mid), UMulRange(x, y, mid + 1, hi))

UMul(x, y) ==
  IF x = <<>> \/ y = <<>> THEN <<>> ELSE UMulRange(x, y, 1, Len(y))

(***************************************************************************)
(* BigInt: a Sign and a BigUint; zero always has NoSign.                   *)
(***************************************************************************)
BigIntOf(neg, mag) ==
  [sign |-> IF mag = <<>> THEN "NoSign" ELSE IF neg THEN "Minus" ELSE "Plus",
   mag  |-> mag]

IZero == BigIntOf(FALSE, <<>>)

INeg(x) == BigIntOf(x.sign = "Plus", x.mag)

IAdd(x, y) ==
  IF x.sign = "NoSign" THEN y
  ELSE IF y.sign = "NoSign" THEN x
  ELSE IF x.sign = y.sign THEN BigIntOf(x.sign = "Minus", UAdd(x.mag, y.mag))
  ELSE LET c == UCmp(x.mag, y.mag)
       IN IF c = 0 THEN IZero
          ELSE IF c > 0 THEN BigIntOf(x.sign = "Minus", USub(x.mag, y.mag))
          ELSE BigIntOf(y.sign = "Minus", USub(y.mag, x.mag))

ISub(x, y) == IAdd(x, INeg(y))

IMul(x, y) == BigIntOf(x.sign # y.sign, UMul(x.mag, y.mag))

IShift(x, k) == BigIntOf(x.sign = "Minus", UShift(x.mag, k))

ITrunc(x, k) == BigIntOf(x.sign = "Minus", UTrunc(x.mag, k))

\* -1, 0 or 1 as x <, =, > y
ICmp(x, y) ==
  LET d == ISub(x, y)
  IN IF d.sign = "Minus" THEN -1 ELSE IF d.sign = "NoSign" THEN 0 ELSE 1

(***************************************************************************)
(* Text of digits.                                                         *)
(***************************************************************************)
DigitChars == <<"0", "1", "2", "3", "4", "5", "6", "7", "8", "9">>

IsDigit(c) == \E i \in 1..10 : DigitChars[i] = c

DigitVal(c) == (CHOOSE i \in 1..10 : DigitChars[i] = c) - 1

Reverse(s) == [i \in 1..Len(s) |-> s[Len(s) + 1 - i]]

\* BigUint of a text of digits (most significant first)
UOfText(t) == UNorm(Reverse([i \in 1..Len(t) |-> DigitVal(t[i])]))

\* BigUint::to_str_radix(10)
UToText(x) ==
  IF x = <<>> THEN <<"0">>
  ELSE Reverse([i \in 1..Len(x) |-> DigitChars[x[i] + 1]])

\* a BigUint of a small natural number
RECURSIVE UOfNat(_)
UOfNat(n) == IF n = 0 THEN <<>> ELSE <<n % 10>> \o UOfNat(n \div 10)

\* the first place in text t of a character of cs, 0 when there is none
Find(t, cs) ==
  LET at == {i \in 1..Len(t) : t[i] \in cs}
  IN IF at = {} THEN 0 ELSE CHOOSE i \in at : \A j \in at : i <= j

AllDigits(t) == \A i \in 1..Len(t) : IsDigit(t[i])

(***************************************************************************)
(* BigDecimal: [int_val: BigInt, scale: Int], of value int_val * 10^-scale.*)
(***************************************************************************)
Ok(v) == [ok |-> TRUE, val |-> v]

Err(e) == [ok |-> FALSE, err |-> e]

BigDecimal(i, s) == [int_val |-> i, scale |-> s]

\* BigDecimal::zero()
DZero == BigDecimal(IZero, 0)

\* BigDecimal::with_scale: multiplies by a power of ten, or divides truncating
WithScale(d, s) ==
  IF s > d.scale THEN BigDecimal(IShift(d.int_val, s - d.scale), s)
  ELSE IF s < d.scale THEN BigDecimal(ITrunc(d.int_val, d.scale - s), s)
  ELSE d

Max(x, y) == IF x >= y THEN x ELSE y

\* BigDecimal + &BigDecimal: the operands are brought to the larger scale
DAdd(x, y) ==
  LET s == Max(x.scale, y.scale)
  IN BigDecimal(IAdd(WithScale(x, s).int_val, WithScale(y, s).int_val), s)

\* BigDecimal - &BigDecimal
DSub(x, y) ==
  LET s == Max(x.scale, y.scale)
  IN BigDecimal(ISub(WithScale(x, s).int_val, WithScale(y, s).int_val), s)

\* BigDecimal * &BigDecimal: the scales add
DMul(x, y) == BigDecimal(IMul(x.int_val, y.int_val), x.scale + y.scale)

\* Ord for BigDecimal: by sign first, then by the sign of the difference
DCmp(x, y) ==
  LET s == Max(x.scale, y.scale)
  IN ICmp(WithScale(x, s).int_val, WithScale(y, s).int_val)

\* PartialEq for BigDecimal (and the derived one of Num): equal values
DEq(x, y) == DCmp(x, y) = 0

\* i64::from_str on a short text: an optional sign and at least one digit
RECURSIVE NatOfText(_)
NatOfText(t) ==
  IF t = <<>> THEN 0
  ELSE 10 * NatOfText(SubSeq(t, 1, Len(t) - 1)) + DigitVal(t[Len(t)])

ParseI64(t) ==
  LET signed == t # <<>> /\ t[1] \in {"+", "-"}
      ds == IF signed THEN Tail(t) ELSE t
  IN IF ds = <<>> \/ ~AllDigits(ds) THEN Err("ParseInt")
     ELSE Ok(IF signed /\ t[1] = "-" THEN 0 - NatOfText(ds) ELSE NatOfText(ds))

\* BigUint::from_str_radix(s, 10): one leading '+' is dropped unless another follows
BigUintFromStr(t) ==
  LET s == IF t # <<>> /\ t[1] = "+" /\ ~(Len(t) > 1 /\ t[2] = "+")
           THEN Tail(t) ELSE t
  IN IF s = <<>> \/ ~AllDigits(s) THEN Err("ParseBigInt") ELSE Ok(UOfText(s))

\* BigInt::from_str_radix(s, 10): a leading '-' gives Minus, and is dropped unless
\* a '+' follows it
BigIntFromStr(t) ==
  LET neg == t # <<>> /\ t[1] = "-"
      s   == IF neg /\ ~(Len(t) > 1 /\ t[2] = "+") THEN Tail(t) ELSE t
      bu  == BigUintFromStr(s)
  IN IF bu.ok THEN Ok(BigIntOf(neg, bu.val)) ELSE bu

\* BigDecimal::from_str: [base][.fraction][(e|E)exponent]
BigDecimalFromStr(s) ==
  LET eloc == Find(s, {"e", "E"})
      base == IF eloc = 0 THEN s ELSE SubSeq(s, 1, eloc - 1)
      etxt == IF eloc = 0 THEN <<>> ELSE SubSeq(s, eloc + 1, Len(s))
      exps == IF etxt # <<>> /\ etxt[1] = "+" THEN Tail(etxt) ELSE etxt
      expo == IF eloc = 0 THEN Ok(0) ELSE ParseI64(exps)
      dloc == Find(base, {"."})
      lead == IF dloc = 0 THEN base ELSE SubSeq(base, 1, dloc - 1)
      trail == IF dloc = 0 THEN <<>> ELSE SubSeq(base, dloc + 1, Len(base))
      int  == BigIntFromStr(lead \o trail)
  IN IF ~expo.ok THEN Err("ParseInt")
     ELSE IF base = <<>> THEN Err("Empty")
     ELSE IF ~int.ok THEN Err("ParseBigInt")
     ELSE Ok(BigDecimal(int.val, Len(trail) - expo.val))

\* DToText without the zeros between the decimal point and the digits of a value
\* below one
DToTextNoPad(d) ==
  LET abs   == UToText(d.int_val.mag)
      n     == Len(abs)
      zeros(k) == [i \in 1..k |-> "0"]
      before == IF d.scale >= n THEN <<"0">>
                ELSE IF d.scale < 0 THEN abs \o zeros(0 - d.scale)
                ELSE SubSeq(abs, 1, n - d.scale)
      after  == IF d.scale >= n THEN abs
                ELSE IF d.scale < 0 THEN <<>>
                ELSE SubSeq(abs, n - d.scale + 1, n)
      body   == IF after # <<>> THEN before \o <<".">> \o after ELSE before
  IN IF d.int_val.sign = "Minus" THEN <<"-">> \o body ELSE body

\* Display for BigDecimal: the digits of int_val split at the decimal point
DToText(d) ==
  LET abs   == UToText(d.int_val.mag)
      n     == Len(abs)
      zeros(k) == [i \in 1..k |-> "0"]
      before == IF d.scale >= n THEN <<"0">>
                ELSE IF d.scale < 0 THEN abs \o zeros(0 - d.scale)
                ELSE SubSeq(abs, 1, n - d.scale)
      after  == IF d.scale >= n THEN zeros(d.scale - n) \o abs
                ELSE IF d.scale < 0 THEN <<>>
                ELSE SubSeq(abs, n - d.scale + 1, n)
      body   == IF after # <<>> THEN before \o <<".">> \o after ELSE before
  IN IF d.int_val.sign = "Minus" THEN <<"-">> \o body ELSE body

(***************************************************************************)
(* Num(BigDecimal), src/brc20/num.rs                                       *)
(***************************************************************************)
MAX_DECIMAL_WIDTH == 18

U8_MAX == 255

U64_MAX == UOfText(<<"1","8","4","4","6","7","4","4","0","7","3","7","0","9",
                     "5","5","1","6","1","5">>)

U128_MAX == UOfText(<<"3","4","0","2","8","2","3","6","6","9","2","0","9","3",
                      "8","4","6","3","4","6","3","3","7","4","6","0","7","4",
                      "3","1","7","6","8","2","1","1","4","5","5">>)

InvalidNum(s) == [kind |-> "InvalidNum", s |-> s]

Overflow(op, org, other) ==
  [kind |-> "Overflow", op |-> op, org |-> org, other |-> other]

\* Num::sign
sign(n) == n.int_val.sign

\* Num::scale
scale(n) == n.scale

\* impl FromStr for Num
from_str(s) ==
  LET num == BigDecimalFromStr(s)
  IN IF s # <<>> /\ s[1] = "." THEN Err(InvalidNum(s))
     ELSE IF ~num.ok THEN Err(InvalidNum(s))
     ELSE IF sign(num.val) = "Minus" THEN Err(InvalidNum(s))
     ELSE IF scale(num.val) > MAX_DECIMAL_WIDTH THEN Err(InvalidNum(s))
     ELSE Ok(num.val)

\* impl Deserialize for Num: the JSON string goes to BigDecimal::from_str only
deserialize(s) ==
  LET num == BigDecimalFromStr(s)
  IN IF num.ok THEN Ok(num.val) ELSE Err([kind |-> "custom", s |-> s])

\* impl Display for Num, which impl Serialize for Num writes as a JSON string
to_string(n) == DToText(n)

\* impl From<u64> for Num, impl From<u128> for Num
from_uint(u) == BigDecimal(BigIntOf(FALSE, u), 0)

checked_add(x, y) == Ok(DAdd(x, y))

\* checked_sub without its comparison of the operands
checked_sub_unchecked(x, y) == Ok(DSub(x, y))

checked_sub(x, y) ==
  IF DCmp(x, y) < 0 THEN Err(Overflow("checked_sub", x, y))
  ELSE Ok(DSub(x, y))

checked_mul(x, y) == Ok(DMul(x, y))

\* the loop of checked_powu: result = result * self, for _ in 1..exp
RECURSIVE PowLoop(_, _, _)
PowLoop(result, x, i) ==
  IF i <= 0 THEN result ELSE PowLoop(DMul(result, x), x, i - 1)

\* checked_powu with its loop run once too often (for _ in 0..exp)
checked_powu_extra(x, e) ==
  IF e = 0 THEN Ok(DZero)
  ELSE IF e = 1 THEN Ok(x)
  ELSE Ok(PowLoop(x, x, e))

checked_powu(x, e) ==
  IF e = 0 THEN Ok(DZero)
  ELSE IF e = 1 THEN Ok(x)
  ELSE Ok(PowLoop(x, x, e - 1))

\* BigDecimal::to_u64 followed by u64 -> u8 (num-traits' ToPrimitive::to_u8)
checked_to_u8(x) ==
  LET i == WithScale(x, 0).int_val
      fits == /\ sign(x) # "Minus"
              /\ UCmp(i.mag, U64_MAX) <= 0
              /\ UCmp(i.mag, UOfNat(U8_MAX)) <= 0
  IN IF fits THEN Ok(i.mag)
     ELSE Err(Overflow("to_u8", x, from_uint(UOfNat(U8_MAX))))

\* BigDecimal::to_bigint followed by BigInt::to_u128
checked_to_u128(x) ==
  LET i == WithScale(x, 0).int_val
  IN IF i.sign # "Minus" /\ UCmp(i.mag, U128_MAX) <= 0 THEN Ok(i.mag)
     ELSE Err(Overflow("to_u128", x, from_uint(U128_MAX)))

(***************************************************************************)
(* The decoding of an operation payload.  A payload is the JSON object of  *)
(* an inscription, as the sequence of its members in document order; every *)
(* member is a key and a string value.  The decoder reads the object into  *)
(* a map, checks the protocol and the op discriminant, and hands the map   *)
(* to the selected variant.  Only the transfer variant is modelled.        *)
(***************************************************************************)
\* the protocol discriminant of the payloads
PROTOCOL_LITERAL == "brc20-s"

\* the fields the payloads of test_loss_require_key's assertion would have
TransferFieldsStale == <<"pid", "tick", "amt">>

\* struct Transfer: the serde names of its fields, in declaration order
TransferFields == <<"tid", "tick", "amt">>

\* a map that keeps the value a key already has
MapInsertFirst(m, k, v) ==
  [x \in DOMAIN m \cup {k} |-> IF x \in DOMAIN m THEN m[x] ELSE v]

\* a JSON object's map: a key already present takes the new value
MapInsert(m, k, v) ==
  [x \in DOMAIN m \cup {k} |-> IF x = k THEN v ELSE m[x]]

\* a map from which nothing is taken
MapKeep(m, k) == m

\* the map without key k
MapRemove(m, k) == [x \in DOMAIN m \ {k} |-> m[x]]

\* the members of the object from the i-th on, inserted into m in order
RECURSIVE ParseObject(_, _, _)
ParseObject(p, i, m) ==
  IF i > Len(p) THEN m
  ELSE ParseObject(p, i + 1, MapInsert(m, p[i].key, p[i].value))

UnknownOperation == [kind |-> "UnknownOperation"]

ParseOperationJsonError(msg) ==
  [kind |-> "ParseOperationJsonError", msg |-> msg]

\* serde's message for a field of the struct that the object does not have:
\* the words "missing field" and the field's name between backquotes
MissingField(f) == <<"missing field", f>>

\* the derived Deserialize of struct Transfer: the fields are taken from the
\* map, and the first one in declaration order that is absent is reported
TransferFromMap(m) ==
  LET missing == {i \in 1..Len(TransferFields) :
                    TransferFields[i] \notin DOMAIN m}
      first == CHOOSE i \in missing : \A j \in missing : i <= j
  IN IF missing # {}
     THEN Err(ParseOperationJsonError(MissingField(TransferFields[first])))
     ELSE Ok([op |-> "transfer",
              tick_id |-> m[TransferFields[1]],
              tick |-> m[TransferFields[2]],
              amount |-> m[TransferFields[3]]])

deserialize_brc30(p) ==
  LET m == ParseObject(p, 1, <<>>)
  IN IF "p" \notin DOMAIN m \/ m["p"] # PROTOCOL_LITERAL
     THEN Err(UnknownOperation)
     ELSE IF "op" \notin DOMAIN m THEN Err(UnknownOperation)
     ELSE IF m["op"] = "transfer" THEN TransferFromMap(m)
     ELSE Err(UnknownOperation)

(***************************************************************************)
(* The ledger: the Ticker Registry, the Balance Ledger and the Transfer    *)
(* Locks, and apply, which validates one operation against them and gives  *)
(* the next ledger and the operation's Receipt.  Amounts are Nums.         *)
(***************************************************************************)
Ticks == {"X", "Y"}

Addrs == {"A", "B"}

ZeroBalance == [available |-> DZero, transferable |-> DZero]

NoCall == [op |-> "none"]

\* brc20_store::Receipt, without its satpoints and inscription number
Receipt(op, inscription_id, from, to, result) ==
  [op |-> op, inscription_id |-> inscription_id, from |-> from, to |-> to,
   result |-> result]

\* a failed validation: the ledger as it was, and the typed reason
Failed(st, reason) == [state |-> st, result |-> Err(reason)]

Applied(st, event) == [state |-> st, result |-> Ok(event)]

\* the sum over the addresses of S of available + transferable of a ticker
RECURSIVE TotalOver(_, _, _)
TotalOver(bal, tick, S) ==
  IF S = {} THEN DZero
  ELSE LET ad == CHOOSE x \in S : TRUE
           e == bal[<<tick, ad>>]
       IN checked_add(checked_add(e.available, e.transferable).val,
                      TotalOver(bal, tick, S \ {ad})).val

\* what was minted of a ticker: all of it is in some balance entry
minted(bal, tick) == TotalOver(bal, tick, Addrs)

credit_available(bal, tick, ad, amt) ==
  Ok([bal EXCEPT ![<<tick, ad>>].available = checked_add(@, amt).val])

debit_available(bal, tick, ad, amt) ==
  LET r == checked_sub(bal[<<tick, ad>>].available, amt)
  IN IF r.ok THEN Ok([bal EXCEPT ![<<tick, ad>>].available = r.val])
     ELSE Err("InsufficientBalance")

lock_transferable(bal, tick, ad, amt) ==
  Ok([bal EXCEPT ![<<tick, ad>>].transferable = checked_add(@, amt).val])

unlock_transferable(bal, tick, ad, amt) ==
  LET r == checked_sub(bal[<<tick, ad>>].transferable, amt)
  IN IF r.ok THEN Ok([bal EXCEPT ![<<tick, ad>>].transferable = r.val])
     ELSE Err("InsufficientBalance")

\* Ticker Registry deploy, with the state machine's conversion of the texts
deploy(st, tick, max, lim, dec, by, inscription_id) ==
  LET supply == from_str(max)
      limit == from_str(lim)
      decimal == from_str(dec)
      dec8 == checked_to_u8(decimal.val)
      record == [tick |-> tick, supply |-> supply.val,
                 limit_per_mint |-> limit.val, decimal |-> dec8.val,
                 deploy_by |-> by, inscription_id |-> inscription_id]
  IN IF tick \in DOMAIN st.tickers THEN Failed(st, "DuplicateTick")
     ELSE IF ~supply.ok \/ ~limit.ok \/ ~decimal.ok
     THEN Failed(st, "InvalidNumber")
     ELSE IF DCmp(supply.val, DZero) = 0
             \/ DCmp(supply.val, from_uint(U64_MAX)) > 0
     THEN Failed(st, "InvalidSupply")
     ELSE IF ~dec8.ok THEN Failed(st, "Overflow")
     ELSE IF UCmp(dec8.val, UOfNat(MAX_DECIMAL_WIDTH)) > 0
     THEN Failed(st, "DecimalsTooLarge")
     ELSE Applied([st EXCEPT !.tickers = MapInsert(@, tick, record)],
                  [type |-> "Deploy", tick |-> tick, supply |-> supply.val,
                   limit_per_mint |-> limit.val, decimal |-> dec8.val])

\* the partial-mint policy: a request above the remaining supply mints it all
mint_amount(amt, remaining) ==
  IF DCmp(amt, remaining) > 0 THEN remaining ELSE amt

mint(st, tick, amt_text, to) ==
  LET amt == from_str(amt_text)
      info == st.tickers[tick]
      left == checked_sub(info.supply, minted(st.balances, tick))
      remaining == IF left.ok THEN left.val ELSE DZero
      cut == mint_amount(amt.val, remaining)
      msg == IF DCmp(cut, amt.val) = 0 THEN <<>> ELSE <<"cut off">>
  IN IF tick \notin DOMAIN st.tickers THEN Failed(st, "TickNotFound")
     ELSE IF ~amt.ok THEN Failed(st, "InvalidNumber")
     ELSE IF DCmp(amt.val, DZero) = 0 THEN Failed(st, "InvalidAmount")
     ELSE IF DCmp(amt.val, info.limit_per_mint) > 0
     THEN Failed(st, "AmountExceedsLimit")
     ELSE IF DCmp(remaining, DZero) = 0 THEN Failed(st, "SupplyExhausted")
     ELSE Applied(
            [st EXCEPT !.balances = credit_available(@, tick, to, cut).val],
            [type |-> "Mint", tick |-> tick, amount |-> cut, msg |-> msg])

inscribe_transfer(st, tick, amt_text, by, inscription_id) ==
  LET amt == from_str(amt_text)
      debited == debit_available(st.balances, tick, by, amt.val)
      locked == lock_transferable(debited.val, tick, by, amt.val)
      lock == [tick |-> tick, owner |-> by, amount |-> amt.val]
  IN IF tick \notin DOMAIN st.tickers THEN Failed(st, "TickNotFound")
     ELSE IF ~amt.ok THEN Failed(st, "InvalidNumber")
     ELSE IF DCmp(amt.val, DZero) = 0 THEN Failed(st, "InvalidAmount")
     ELSE IF ~debited.ok THEN Failed(st, debited.err)
     ELSE Applied(
            [st EXCEPT !.balances = locked.val,
                       !.locks = MapInsert(@, inscription_id, lock)],
            [type |-> "InscribeTransfer", tick |-> tick, amount |-> amt.val])

transfer(st, inscription_id, from, to) ==
  LET lock == st.locks[inscription_id]
      unlocked == unlock_transferable(st.balances, lock.tick, from,
                                      lock.amount)
      credited == credit_available(unlocked.val, lock.tick, to, lock.amount)
  IN IF inscription_id \notin DOMAIN st.locks
     THEN Failed(st, "LockNotFound")
     ELSE IF ~unlocked.ok THEN Failed(st, unlocked.err)
     ELSE Applied(
            [st EXCEPT !.balances = credited.val,
                       !.locks = MapRemove(@, inscription_id)],
            [type |-> "Transfer", tick |-> lock.tick,
             amount |-> lock.amount, msg |-> <<>>])

\* Option<String>::unwrap_or
unwrap_or(msg, default) == IF msg = <<>> THEN default ELSE msg[1]

\* a TxEvent that reports every receipt as failed
TxEventInvalid(event) ==
  [event |-> event.op, inscription_id |-> event.inscription_id,
   from |-> event.from, to |-> event.to, valid |-> FALSE, msg |-> "error"]

\* impl From<&brc20_store::Receipt> for TxEvent
TxEventFrom(event) ==
  LET r == event.result
      common == [inscription_id |-> event.inscription_id,
                 from |-> event.from, to |-> event.to]
  IN IF r.ok /\ r.val.type = "Deploy"
     THEN common @@ [tick |-> r.val.tick,
                     supply |-> to_string(r.val.supply),
                     limit_per_mint |-> to_string(r.val.limit_per_mint),
                     decimal |-> r.val.decimal,
                     valid |-> TRUE, msg |-> "ok", event |-> "deploy"]
     ELSE IF r.ok /\ r.val.type = "Mint"
     THEN common @@ [tick |-> r.val.tick,
                     amount |-> to_string(r.val.amount),
                     valid |-> TRUE, msg |-> unwrap_or(r.val.msg, "ok"),
                     event |-> "mint"]
     ELSE IF r.ok /\ r.val.type = "InscribeTransfer"
     THEN common @@ [tick |-> r.val.tick,
                     amount |-> to_string(r.val.amount),
                     valid |-> TRUE, msg |-> "ok",
                     event |-> "inscribeTransfer"]
     ELSE IF r.ok /\ r.val.type = "Transfer"
     THEN common @@ [tick |-> r.val.tick,
                     amount |-> to_string(r.val.amount),
                     valid |-> TRUE, msg |-> unwrap_or(r.val.msg, "ok"),
                     event |-> "transfer"]
     ELSE common @@ [valid |-> FALSE, msg |-> r.err,
                     event |-> CASE event.op = "Deploy" -> "deploy"
                                 [] event.op = "Mint" -> "mint"
                                 [] event.op = "InscribeTransfer"
                                      -> "inscribeTransfer"
                                 [] event.op = "Transfer" -> "transfer"]
\* brc20_tx_events: the txid is parsed, the receipts of the transaction are
\* looked up in the index (tx_events is <<>> for None, <<receipts>> for Some)
\* and each one is turned into its TxEvent, in order
brc20_tx_events(txid_ok, index_ok, tx_events) ==
  IF ~txid_ok THEN Err("bad_request")
  ELSE IF ~index_ok THEN Err("internal")
  ELSE IF tx_events = <<>> THEN Err("not_found")
  ELSE Ok([events |-> [i \in DOMAIN tx_events[1] |->
                         TxEventFrom(tx_events[1][i])]])

(***************************************************************************)
(* SpecParse: Num::from_str applied to a text, then to_string / Serialize  *)
(* applied to the Num it gave.                                             *)
(***************************************************************************)
MaxLen == 3

Alphabet == {"0", "1", ".", "-", "+", "e", "x"}

ShortTexts == UNION {[1..n -> Alphabet] : n \in 0..MaxLen}

\* text s with n zero digits put in after its first decimal point, if it has one
PadAfterDot(s, n) ==
  LET dloc == Find(s, {"."})
  IN IF dloc = 0 THEN s
     ELSE SubSeq(s, 1, dloc) \o [i \in 1..n |-> "0"] \o SubSeq(s, dloc + 1, Len(s))

\* fraction lengths around the protocol maximum
Pads == {0, MAX_DECIMAL_WIDTH - 1, MAX_DECIMAL_WIDTH, MAX_DECIMAL_WIDTH + 1}

ParseInputs == {PadAfterDot(s, n) : s \in ShortTexts, n \in Pads}

NumIdle ==
  /\ a = DZero /\ b = DZero /\ ex = 0 /\ opn = "idle" /\ res = NoneYet
  /\ depth = 0

ParseIdle == input = <<>> /\ parsed = NoneYet /\ shown = <<>>

DecodeIdle == payload = <<>> /\ decoded = NoneYet

\* the index has no receipts for the txid, and nothing was asked
EventIdle == stored = <<>> /\ events = NoneYet

LedgerIdle ==
  /\ tickers = <<>>
  /\ balances = [k \in Ticks \X Addrs |-> ZeroBalance]
  /\ locks = <<>>
  /\ inscriptions = 0
  /\ call = NoCall
  /\ receipt = NoneYet

ParseInit ==
  /\ input \in ParseInputs
  /\ parsed = NoneYet
  /\ shown = <<>>
  /\ NumIdle /\ DecodeIdle /\ LedgerIdle /\ EventIdle

ParseFromStr ==
  /\ parsed = NoneYet
  /\ parsed' = from_str(input)
  /\ UNCHANGED <<input, shown>>
  /\ UNCHANGED <<numVars, decodeVars, ledgerVars, eventVars>>

ParseToString ==
  /\ parsed.ok
  /\ shown = <<>>
  /\ shown' = to_string(parsed.val)
  /\ UNCHANGED <<input, parsed>>
  /\ UNCHANGED <<numVars, decodeVars, ledgerVars, eventVars>>

ParseNext == ParseFromStr \/ ParseToString

vars == <<parseVars, numVars, decodeVars, ledgerVars, eventVars>>

SpecParse == ParseInit /\ [][ParseNext]_vars

(***************************************************************************)
(* SpecNum: Nums are constructed and the checked operations applied.  A    *)
(* constructed Num, or a kept result, becomes operand a, and the former a  *)
(* becomes operand b.                                                      *)
(***************************************************************************)
MaxExp == 3

MaxDepth == 1

MaxDigits == 20

NumTexts ==
  { <<"0">>, <<"1", ".", "5">>, <<"2", "5", "5">>, <<"2", "5", "6">>,
    <<"-", "1">>,
    <<"0", ".", "0", "0", "0", "0", "0", "0", "0", "0", "0", "1">>,
    <<"x">> }

\* u64 and u128 values given to From<u64> / From<u128>
NumUints == {UOfNat(7), U128_MAX}

\* operands of at most MaxDigits digits are multiplied
Small(n) == Len(n.int_val.mag) <= MaxDigits

\* two operands made by From<u64>
NumInit ==
  /\ a = from_uint(<<>>)
  /\ b = from_uint(UOfNat(7))
  /\ ex = 0 /\ opn = "from" /\ res = Ok(from_uint(<<>>))
  /\ depth = 0
  /\ ParseIdle /\ DecodeIdle /\ LedgerIdle /\ EventIdle

Push(v) == a' = v /\ b' = a

NumFromStr ==
  \E s \in NumTexts :
    LET r == from_str(s)
    IN /\ depth = 0
       /\ opn' = "from_str"
       /\ res' = r
       /\ IF r.ok THEN Push(r.val) ELSE UNCHANGED <<a, b>>
       /\ UNCHANGED <<ex, depth>>
       /\ UNCHANGED <<parseVars, decodeVars, ledgerVars, eventVars>>

NumDeserialize ==
  \E s \in NumTexts :
    LET r == deserialize(s)
    IN /\ depth = 0
       /\ opn' = "deserialize"
       /\ res' = r
       /\ IF r.ok THEN Push(r.val) ELSE UNCHANGED <<a, b>>
       /\ UNCHANGED <<ex, depth>>
       /\ UNCHANGED <<parseVars, decodeVars, ledgerVars, eventVars>>

NumFrom ==
  \E u \in NumUints :
    /\ depth = 0
    /\ opn' = "from"
    /\ res' = Ok(from_uint(u))
    /\ Push(from_uint(u))
    /\ UNCHANGED <<ex, depth>>
    /\ UNCHANGED <<parseVars, decodeVars, ledgerVars, eventVars>>

\* an operation is applied to the operands as they were constructed or kept
Apply(name, r) ==
  /\ opn \in {"from_str", "deserialize", "from", "keep"}
  /\ opn' = name
  /\ res' = r
  /\ UNCHANGED <<a, b, depth>>
  /\ UNCHANGED <<parseVars, decodeVars, ledgerVars, eventVars>>

CheckedAdd == Apply("checked_add", checked_add(a, b)) /\ UNCHANGED ex

CheckedSub == Apply("checked_sub", checked_sub(a, b)) /\ UNCHANGED ex

CheckedMul ==
  /\ Small(a) /\ Small(b)
  /\ Apply("checked_mul", checked_mul(a, b))
  /\ UNCHANGED ex

CheckedPowu ==
  \E e \in 0..MaxExp :
    /\ Small(a)
    /\ Apply("checked_powu", checked_powu(a, e))
    /\ ex' = e

CheckedToU8 == Apply("to_u8", checked_to_u8(a)) /\ UNCHANGED ex

CheckedToU128 == Apply("to_u128", checked_to_u128(a)) /\ UNCHANGED ex

\* the Num an operation returned is used as the next operand
NumKeep ==
  /\ opn \in {"checked_add", "checked_sub", "checked_mul", "checked_powu"}
  /\ res.ok
  /\ depth < MaxDepth
  /\ Push(res.val)
  /\ depth' = depth + 1
  /\ opn' = "keep"
  /\ res' = Ok(res.val)
  /\ UNCHANGED ex
  /\ UNCHANGED <<parseVars, decodeVars, ledgerVars, eventVars>>

NumNext ==
  \/ NumFromStr \/ NumDeserialize \/ NumFrom
  \/ CheckedAdd \/ CheckedSub \/ CheckedMul \/ CheckedPowu
  \/ CheckedToU8 \/ CheckedToU128
  \/ NumKeep

SpecNum == NumInit /\ [][NumNext]_vars

(***************************************************************************)
(* SpecDecode: a payload is written member by member and decoded.          *)
(***************************************************************************)
MaxMembers == 5

FieldValues == {"v1", "v2"}

ProtocolMember == [key |-> "p", value |-> PROTOCOL_LITERAL]

Members ==
  {[key |-> "op", value |-> "transfer"], [key |-> "op", value |-> "x"]}
  \cup {[key |-> k, value |-> v] : k \in {"tid", "tick", "amt"},
                                    v \in FieldValues}

\* the object starts with the protocol member, or does not have it
DecodeInit ==
  /\ payload \in {<<>>, <<ProtocolMember>>}
  /\ decoded = NoneYet
  /\ ParseIdle /\ NumIdle /\ LedgerIdle /\ EventIdle

PayloadMember ==
  \E m \in Members :
    /\ Len(SelectSeq(payload, LAMBDA x : x # ProtocolMember)) < MaxMembers
    /\ payload' = Append(payload, m)
    /\ decoded' = NoneYet
    /\ UNCHANGED <<parseVars, numVars, ledgerVars, eventVars>>

DeserializeBrc30 ==
  /\ decoded = NoneYet
  /\ decoded' = deserialize_brc30(payload)
  /\ UNCHANGED payload
  /\ UNCHANGED <<parseVars, numVars, ledgerVars, eventVars>>

DecodeNext == PayloadMember \/ DeserializeBrc30

SpecDecode == DecodeInit /\ [][DecodeNext]_vars

(***************************************************************************)
(* SpecLedger: operations are applied one after the other.  Deploy, Mint   *)
(* and InscribeTransfer each come in a new inscription; a Transfer is an   *)
(* existing inscription moving from the address that holds it.             *)
(***************************************************************************)
MaxInscriptions == 3

SupplyTexts == {<<"0">>, <<"2">>, UToText(UAdd(U64_MAX, <<1>>))}

LimitTexts == {<<"2">>}

DecTexts == {<<"0">>, <<"1", "9">>}

AmtTexts == {<<"0">>, <<"1">>, <<"2">>, <<"3">>, <<"x">>}

current_state == [tickers |-> tickers, balances |-> balances, locks |-> locks]

LedgerInit ==
  LedgerIdle /\ ParseIdle /\ NumIdle /\ DecodeIdle /\ EventIdle

\* apply returned r for the operation c of inscription id
Returned(op, id, from, to, c, r) ==
  /\ tickers' = r.state.tickers
  /\ balances' = r.state.balances
  /\ locks' = r.state.locks
  /\ receipt' = Receipt(op, id, from, to, r.result)
  /\ call' = c
  /\ UNCHANGED <<parseVars, numVars, decodeVars, eventVars>>

Deploy ==
  \E tick \in Ticks, max \in SupplyTexts, lim \in LimitTexts,
     dec \in DecTexts, by \in Addrs :
    LET id == inscriptions + 1
    IN /\ inscriptions < MaxInscriptions
       /\ inscriptions' = id
       /\ Returned("Deploy", id, by, by,
                   [op |-> "Deploy", tick |-> tick, max |-> max, lim |-> lim,
                    dec |-> dec, by |-> by],
                   deploy(current_state, tick, max, lim, dec, by, id))

Mint ==
  \E tick \in Ticks, amt \in AmtTexts, to \in Addrs :
    LET id == inscriptions + 1
    IN /\ inscriptions < MaxInscriptions
       /\ inscriptions' = id
       /\ Returned("Mint", id, to, to,
                   [op |-> "Mint", tick |-> tick, amt |-> amt, to |-> to],
                   mint(current_state, tick, amt, to))

InscribeTransfer ==
  \E tick \in Ticks, amt \in AmtTexts, by \in Addrs :
    LET id == inscriptions + 1
    IN /\ inscriptions < MaxInscriptions
       /\ inscriptions' = id
       /\ Returned("InscribeTransfer", id, by, by,
                   [op |-> "InscribeTransfer", tick |-> tick, amt |-> amt,
                    by |-> by, inscription_id |-> id],
                   inscribe_transfer(current_state, tick, amt, by, id))

Transfer ==
  \E id \in 1..inscriptions, from \in Addrs, to \in Addrs :
    /\ id \in DOMAIN locks => from = locks[id].owner
    /\ UNCHANGED inscriptions
    /\ Returned("Transfer", id, from, to,
                [op |-> "Transfer", inscription_id |-> id, from |-> from,
                 to |-> to],
                transfer(current_state, id, from, to))

LedgerNext == Deploy \/ Mint \/ InscribeTransfer \/ Transfer

SpecLedger == LedgerInit /\ [][LedgerNext]_vars

(***************************************************************************)
(* SpecEvents: the receipts of one transaction are stored one after the    *)
(* other, as the state machine gave them, and the events of the            *)
(* transaction are asked for.                                              *)
(***************************************************************************)
MaxReceipts == 2

OperationType == {"Deploy", "Mint", "InscribeTransfer", "Transfer"}

SomeAmount == from_uint(UOfNat(2))

\* the results the state machine gives for an operation of kind op: the
\* Event of that kind, or an error
ResultsOf(op) ==
  CASE op = "Deploy" ->
         {Ok([type |-> "Deploy", tick |-> "X", supply |-> SomeAmount,
              limit_per_mint |-> SomeAmount, decimal |-> <<>>]),
          Err("DuplicateTick")}
    [] op = "Mint" ->
         {Ok([type |-> "Mint", tick |-> "X", amount |-> SomeAmount,
              msg |-> m]) : m \in {<<>>, <<"cut off">>}}
         \cup {Err("TickNotFound")}
    [] op = "InscribeTransfer" ->
         {Ok([type |-> "InscribeTransfer", tick |-> "X",
              amount |-> SomeAmount]),
          Err("InsufficientBalance")}
    [] op = "Transfer" ->
         {Ok([type |-> "Transfer", tick |-> "X", amount |-> SomeAmount,
              msg |-> <<>>]),
          Err("LockNotFound")}

StoredReceipts ==
  UNION {{Receipt(op, 1, "A", to, r) : to \in Addrs, r \in ResultsOf(op)} :
           op \in OperationType}

EventsInit ==
  EventIdle /\ LedgerIdle /\ ParseIdle /\ NumIdle /\ DecodeIdle

StoreReceipt ==
  \E r \in StoredReceipts :
    /\ IF stored = <<>> THEN TRUE ELSE Len(stored[1]) < MaxReceipts
    /\ stored' = IF stored = <<>> THEN <<<<r>>>>
                 ELSE <<Append(stored[1], r)>>
    /\ events' = NoneYet
    /\ UNCHANGED <<parseVars, numVars, decodeVars, ledgerVars>>

Brc20TxEvents ==
  \E txid_ok \in BOOLEAN, index_ok \in BOOLEAN :
    /\ events' = brc20_tx_events(txid_ok, index_ok, stored)
    /\ UNCHANGED stored
    /\ UNCHANGED <<parseVars, numVars, decodeVars, ledgerVars>>

EventsNext == StoreReceipt \/ Brc20TxEvents

SpecEvents == EventsInit /\ [][EventsNext]_vars

(***************************************************************************)
(* What the claims say of a text, read off the text itself.                *)
(***************************************************************************)
StartsWithDot(s) == s # <<>> /\ s[1] = "."

HasNegativeSign(s) == s # <<>> /\ s[1] = "-"

\* the text without a leading sign
Unsigned(s) == IF s # <<>> /\ s[1] \in {"+", "-"} THEN Tail(s) ELSE s

\* the text before an exponent mark
Mantissa(s) ==
  LET eloc == Find(s, {"e", "E"})
  IN IF eloc = 0 THEN s ELSE SubSeq(s, 1, eloc - 1)

\* the text after the exponent mark
Exponent(s) ==
  LET eloc == Find(s, {"e", "E"})
  IN IF eloc = 0 THEN <<>> ELSE SubSeq(s, eloc + 1, Len(s))

IntPart(s) ==
  LET m == Mantissa(Unsigned(s))
      dloc == Find(m, {"."})
  IN IF dloc = 0 THEN m ELSE SubSeq(m, 1, dloc - 1)

FracPart(s) ==
  LET m == Mantissa(Unsigned(s))
      dloc == Find(m, {"."})
  IN IF dloc = 0 THEN <<>> ELSE SubSeq(m, dloc + 1, Len(m))

FracDigits(s) == Len(FracPart(s))

\* a decimal number: [sign] digits [. digits] [e [sign] digits], with a digit in
\* the mantissa
IsDecimalText(s) ==
  /\ AllDigits(IntPart(s)) /\ AllDigits(FracPart(s))
  /\ Len(IntPart(s)) + Len(FracPart(s)) >= 1
  /\ Find(s, {"e", "E"}) # 0 =>
       /\ Unsigned(Exponent(s)) # <<>>
       /\ AllDigits(Unsigned(Exponent(s)))

\* the value of a decimal number
ValueOfText(s) ==
  LET e == IF Find(s, {"e", "E"}) = 0 THEN 0
           ELSE IF Exponent(s)[1] = "-" THEN 0 - NatOfText(Unsigned(Exponent(s)))
           ELSE NatOfText(Unsigned(Exponent(s)))
  IN BigDecimal(BigIntOf(HasNegativeSign(s), UOfText(IntPart(s) \o FracPart(s))),
                FracDigits(s) - e)

\* a plain decimal: digits [. digits], no sign and no exponent
IsPlainDecimal(s) ==
  /\ s # <<>> /\ \A i \in 1..Len(s) : IsDigit(s[i]) \/ s[i] = "."
  /\ IntPart(s) # <<>>
  /\ AllDigits(FracPart(s))
  /\ Find(s, {"."}) # 0 => FracPart(s) # <<>>

\* digits without their leading zeros, one digit kept
StripLeadingZeros(t) == UToText(UOfText(t))

\* digits without their trailing zeros
StripTrailingZeros(t) == Reverse(UNorm(Reverse(
                           [i \in 1..Len(t) |-> DigitVal(t[i])]))) 

DigitText(ds) == [i \in 1..Len(ds) |-> DigitChars[ds[i] + 1]]

\* the numerically normalized form: trailing fractional zeros stripped, the
\* leading zero kept
NormalForm(s) ==
  LET f == DigitText(StripTrailingZeros(FracPart(s)))
  IN StripLeadingZeros(IntPart(s)) \o (IF f = <<>> THEN <<>> ELSE <<".">> \o f)

\* the digits as written: every fractional digit kept
WrittenForm(s) ==
  StripLeadingZeros(IntPart(s))
    \o (IF FracPart(s) = <<>> THEN <<>> ELSE <<".">> \o FracPart(s))

NumValid(n) == sign(n) # "Minus" /\ scale(n) <= MAX_DECIMAL_WIDTH

NumOps == {"from_str", "deserialize", "from", "keep", "checked_add",
           "checked_sub", "checked_mul", "checked_powu"}

(***************************************************************************)
(* C1: every Num, however constructed (from_str, JSON deserialization,     *)
(* From<u64>/From<u128>, or checked arithmetic on such values), is         *)
(* non-negative and has scale at most 18.                                  *)
(***************************************************************************)
C1_NumInvariant ==
  /\ NumValid(a)
  /\ NumValid(b)
  /\ (res.ok /\ opn \in NumOps) => NumValid(res.val)

(***************************************************************************)
(* C2: Num::from_str(s) fails with InvalidNum(s) when s starts with '.',   *)
(* carries a negative sign (a signed zero such as "-0" included), is not a *)
(* decimal number, or has more than 18 fractional digits; for every other  *)
(* s it returns a Num of the value of s.                                   *)
(***************************************************************************)
C2_FromStrContract ==
  parsed # NoneYet =>
    IF \/ StartsWithDot(input)
       \/ HasNegativeSign(input)
       \/ ~IsDecimalText(input)
       \/ FracDigits(input) > MAX_DECIMAL_WIDTH
    THEN ~parsed.ok /\ parsed.err = InvalidNum(input)
    ELSE parsed.ok /\ DEq(parsed.val, ValueOfText(input))

RECURSIVE IPow(_, _)
IPow(x, e) == IF e = 0 THEN BigIntOf(FALSE, <<1>>) ELSE IMul(x, IPow(x, e - 1))

C5_PowuExact ==
  opn = "checked_powu" =>
    /\ res.ok
    /\ ex = 0 => res.val = DZero
    /\ ex = 1 => res.val = a
    /\ ex >= 2 => res.val = BigDecimal(IPow(a.int_val, ex), a.scale * ex)

\* a Num with fractional digits has been raised to a power of at least 2
C5_Witness ==
  /\ opn = "checked_powu" /\ ex >= 2
  /\ scale(a) > 0 /\ sign(a) = "Plus"
  /\ res.ok /\ scale(res.val) = ex * scale(a)

(***************************************************************************)
(* C6: checked_to_u8(x) succeeds with a result equal to x when x does not  *)
(* exceed 255 and fails with Overflow{op: "to_u8", org: x, other: 255}     *)
(* otherwise; checked_to_u128 likewise with u128::MAX; neither returns an  *)
(* integer different in value from x.                                      *)
(***************************************************************************)
C6_NarrowingExact ==
  /\ opn = "to_u8" =>
       IF DCmp(a, from_uint(UOfNat(U8_MAX))) <= 0
       THEN res.ok /\ DEq(from_uint(res.val), a)
       ELSE ~res.ok /\ res.err = Overflow("to_u8", a, from_uint(UOfNat(U8_MAX)))
  /\ opn = "to_u128" =>
       IF DCmp(a, from_uint(U128_MAX)) <= 0
       THEN res.ok /\ DEq(from_uint(res.val), a)
       ELSE ~res.ok /\ res.err = Overflow("to_u128", a, from_uint(U128_MAX))

(***************************************************************************)
(* What the claims say of a payload, read off its members.                 *)
(***************************************************************************)
KeysOf(p) == {p[i].key : i \in DOMAIN p}

\* the value of the last member of p with key k
LastOf(p, k) ==
  LET at == {i \in DOMAIN p : p[i].key = k}
  IN p[CHOOSE i \in at : \A j \in at : j <= i].value

Repeats(p) == \E i, j \in DOMAIN p : i < j /\ p[i].key = p[j].key

Has(p, k, v) == k \in KeysOf(p) /\ LastOf(p, k) = v

SelectsTransfer(p) == Has(p, "p", "brc20-s") /\ Has(p, "op", "transfer")

(***************************************************************************)
(* C7: decoding a payload whose object repeats a key succeeds whenever the *)
(* payload selects the transfer variant and has its three fields, and each *)
(* decoded field holds the value of the last occurrence of its key in      *)
(* document order; the repetition is never an error and an earlier         *)
(* occurrence never wins.                                                  *)
(***************************************************************************)
C7_DuplicateKeyLastWins ==
  decoded # NoneYet /\ Repeats(payload) =>
    /\ decoded.ok <=> /\ SelectsTransfer(payload)
                      /\ {"tid", "tick", "amt"} \subseteq KeysOf(payload)
    /\ decoded.ok => /\ decoded.val.tick_id = LastOf(payload, "tid")
                     /\ decoded.val.tick = LastOf(payload, "tick")
                     /\ decoded.val.amount = LastOf(payload, "amt")

\* a payload with two tick members of different values has been decoded
C7_Witness ==
  /\ decoded.ok
  /\ \E i, j \in DOMAIN payload :
       /\ i < j
       /\ payload[i].key = "tick" /\ payload[j].key = "tick"
       /\ payload[i].value # payload[j].value
       /\ decoded.val.tick = payload[j].value

Reasons ==
  {"DuplicateTick", "InvalidNumber", "InvalidSupply", "Overflow",
   "DecimalsTooLarge", "TickNotFound", "InvalidAmount", "AmountExceedsLimit",
   "SupplyExhausted", "InsufficientBalance", "LockNotFound"}

LedgerUnchanged ==
  tickers' = tickers /\ balances' = balances /\ locks' = locks

C9_Step ==
  LET shownEvent == TxEventFrom(receipt')
      c == call'
  IN /\ ~shownEvent.valid => LedgerUnchanged /\ shownEvent.msg \in Reasons
     /\ c.op = "Deploy" /\ c.tick \in DOMAIN tickers =>
          ~shownEvent.valid /\ shownEvent.msg = "DuplicateTick"
     /\ /\ c.op = "InscribeTransfer" /\ c.tick \in DOMAIN tickers
        /\ from_str(c.amt).ok
        /\ DCmp(from_str(c.amt).val, balances[<<c.tick, c.by>>].available) > 0
        => ~shownEvent.valid /\ shownEvent.msg = "InsufficientBalance"

C9_FailureLeavesLedger == [][C9_Step]_vars

\* an InscribeTransfer of more than the sender has, after a Mint, has failed
C9_Witness ==
  /\ call.op = "InscribeTransfer"
  /\ ~TxEventFrom(receipt).valid
  /\ receipt.result.err = "InsufficientBalance"
  /\ \E k \in DOMAIN balances : sign(balances[k].available) = "Plus"

(***************************************************************************)
(* C10: for every ticker the sum over the addresses of available +         *)
(* transferable never exceeds the ticker's supply, and no available or     *)
(* transferable amount is negative; InscribeTransfer and Transfer leave    *)
(* the sum of a ticker as it was, and only a successful Mint raises it.    *)
(***************************************************************************)
C10_Bounded ==
  \A t \in Ticks :
    /\ t \in DOMAIN tickers =>
         DCmp(minted(balances, t), tickers[t].supply) <= 0
    /\ t \notin DOMAIN tickers => DEq(minted(balances, t), DZero)
    /\ \A ad \in Addrs :
         /\ sign(balances[<<t, ad>>].available) # "Minus"
         /\ sign(balances[<<t, ad>>].transferable) # "Minus"

\* a step that leaves every entry as it was leaves every sum as it was
C10_Step ==
  balances' # balances =>
    \A t \in Ticks :
      LET change == DCmp(minted(balances', t), minted(balances, t))
      IN /\ call'.op \in {"InscribeTransfer", "Transfer"} => change = 0
         /\ change > 0 => /\ call'.op = "Mint" /\ call'.tick = t
                          /\ TxEventFrom(receipt').valid

C10_SupplyConserved == []C10_Bounded /\ [][C10_Step]_vars

\* a Mint asked for more than was left and was given the rest of the supply
C10_Witness ==
  /\ call.op = "Mint" /\ receipt.result.ok
  /\ DCmp(from_str(call.amt).val, receipt.result.val.amount) > 0
  /\ DEq(minted(balances, call.tick), tickers[call.tick].supply)

(***************************************************************************)
(* C11: a Transfer Lock is made only by a valid InscribeTransfer, for its  *)
(* own new inscription, and is consumed at most once: a Transfer of an     *)
(* inscription that has a lock takes the locked amount from the sender's   *)
(* transferable balance, adds it to the receiver's available balance and   *)
(* removes the lock; a Transfer of an inscription without a lock (one      *)
(* already moved, or never a valid InscribeTransfer) fails with            *)
(* LockNotFound and changes no balance and no lock.                        *)
(***************************************************************************)
\* every lock belongs to an inscription that exists
C11_LocksOfInscriptions == DOMAIN locks \subseteq 1..inscriptions

C11_Step ==
  LET c == call'
      shownEvent == TxEventFrom(receipt')
      id == c.inscription_id
      lock == locks[id]
      from == <<lock.tick, c.from>>
      to == <<lock.tick, c.to>>
      moved == [[balances EXCEPT ![from].transferable = DSub(@, lock.amount)]
                  EXCEPT ![to].available = DAdd(@, lock.amount)]
  IN /\ c.op = "Transfer" =>
          IF id \in DOMAIN locks
          THEN /\ shownEvent.valid
               /\ balances' = moved
               /\ DOMAIN locks' = DOMAIN locks \ {id}
               /\ \A k \in DOMAIN locks' : locks'[k] = locks[k]
          ELSE /\ ~shownEvent.valid /\ shownEvent.msg = "LockNotFound"
               /\ balances' = balances /\ locks' = locks
     /\ \A k \in DOMAIN locks' \ DOMAIN locks :
          /\ c.op = "InscribeTransfer" /\ shownEvent.valid
          /\ k = inscriptions + 1 /\ inscriptions' = k

C11_LockConsumedOnce == []C11_LocksOfInscriptions /\ [][C11_Step]_vars

\* the inscription of a lock has moved to another address: the lock is gone,
\* the receiver has the amount and nothing of the ticker is transferable
C11_Witness ==
  /\ call.op = "Transfer" /\ receipt.result.ok
  /\ call.from # call.to
  /\ call.inscription_id \notin DOMAIN locks
  /\ LET e == receipt.result.val
     IN /\ DCmp(balances[<<e.tick, call.to>>].available, e.amount) >= 0
        /\ DEq(balances[<<e.tick, call.from>>].transferable, DZero)

(***************************************************************************)
(* C12: the events brc20_tx_events gives for a transaction are as many as  *)
(* its stored receipts and in their order; the event of a receipt r has    *)
(* valid = true exactly when r.result is Ok, valid = false exactly when it *)
(* is Err, and in both cases its type string names the operation kind      *)
(* recorded in r.op.                                                       *)
(***************************************************************************)
TypeString(op) ==
  CASE op = "Deploy" -> "deploy"
    [] op = "Mint" -> "mint"
    [] op = "InscribeTransfer" -> "inscribeTransfer"
    [] op = "Transfer" -> "transfer"

C12_EventsOfReceipts ==
  events.ok =>
    /\ stored # <<>>
    /\ Len(events.val.events) = Len(stored[1])
    /\ \A i \in DOMAIN stored[1] :
         LET r == stored[1][i]
             e == events.val.events[i]
         IN /\ e.valid = TRUE <=> r.result.ok
            /\ e.valid = FALSE <=> ~r.result.ok
            /\ e.event = TypeString(r.op)
            /\ e.inscription_id = r.inscription_id
            /\ e.from = r.from /\ e.to = r.to
            /\ e.msg = IF r.result.ok
                       THEN (IF r.op \in {"Mint", "Transfer"}
                                /\ r.result.val.msg # <<>>
                             THEN r.result.val.msg[1] ELSE "ok")
                       ELSE r.result.err

\* the events of a transaction with a valid Mint followed by a failed
\* Transfer have been given
C12_Witness ==
  /\ events.ok
  /\ Len(stored[1]) = 2
  /\ stored[1][1].op = "Mint" /\ stored[1][1].result.ok
  /\ stored[1][2].op = "Transfer" /\ ~stored[1][2].result.ok
  /\ events.val.events[1].valid /\ ~events.val.events[2].valid

====
